---- MODULE Spec2Model ----
(***************************************************************************)
(* Model of the social-media automation server: the YouTube upload driver  *)
(* (services/youtube_service.py), the Instagram client                     *)
(* (services/instagram_service.py) and the routers that call them.         *)
(*                                                                         *)
(* Each HTTP request is a process.  One action is one scheduling step of   *)
(* the asyncio event loop: it resumes the coroutine from the await it is   *)
(* suspended on, with the outcome of that awaited call chosen by the       *)
(* environment, and runs the synchronous code up to the next await.        *)
(* Consecutive awaits that touch only the call's own page (selector wait,  *)
(* click, type, sleep, diagnostic screenshot) are taken in one step.       *)
(*                                                                         *)
(* Every awaited page operation may raise.  The teardown primitives        *)
(* (page.close, context.close, playwright.stop) return normally.           *)
(* Operations on the file system (exists, rmtree, mkdir, unlink) succeed.   *)
(***************************************************************************)
EXTENDS Integers, Sequences, FiniteSets, TLC

(***************************************************************************)
(* Bounds of the model.                                                    *)
(***************************************************************************)
\* browser contexts the host can keep open at once: a launch beyond it fails
MaxOpen == 2
\* automation runtimes the host can keep running at once
MaxRuntimes == 2
\* iterations of the challenge-dismissal poll (range(300) in the source)
VerifyPolls == 2
\* iterations of the content-checks poll (max_wait = 600 in the source)
CheckPolls == 2

Procs == {"p1", "p2"}

\* identities of browser contexts and of automation runtimes; an identity is
\* used again once nothing refers to it
CtxPool == 1..(MaxOpen + 1 + 3 * Cardinality(Procs))
PwPool == 1..(MaxRuntimes + 1 + 3 * Cardinality(Procs))

(***************************************************************************)
(* Values.                                                                 *)
(***************************************************************************)
\* Python's None for a string-valued expression (strings are tuples of characters)
None == <<"None">>
\* a handle (self.context, self.playwright, page) that is None
NoHandle == 0

\* file ids of the upload directory: a stem and the suffix pathlib reports
FileIds ==
  { [stem |-> "a", suffix |-> ".MP4"],
    [stem |-> "c", suffix |-> ".png"] }
NoFile == [stem |-> "", suffix |-> ""]
\* file ids a reel request can name: the name of one holds the text
\* "clips_metadata"
ReelFileIds == FileIds \cup { [stem |-> "clips_metadata", suffix |-> ".mp4"] }

\* str.lower() on the suffixes that occur
lower(s) ==
  CASE s = ".MP4" -> ".mp4"
    [] s = ".MOV" -> ".mov"
    [] s = ".PNG" -> ".png"
    [] OTHER -> s

video_exts == {".mp4", ".mov", ".avi", ".mkv", ".webm"}
image_exts == {".jpg", ".jpeg", ".png", ".gif"}
ig_video_exts == {".mp4", ".mov"}

Privacy == {"private", "unlisted", "public"}
Descriptions == {"", "about"}
Tags == {<<>>, <<"fun">>}

\* YouTubeUploadRequest
UploadRequests ==
  [ video_file_id : FileIds,
    title : {"Demo"},
    description : Descriptions,
    thumbnail_file_id : FileIds \cup {NoFile},
    privacy : Privacy,
    made_for_kids : BOOLEAN,
    tags : Tags ]

NoRequest ==
  [ video_file_id |-> NoFile, title |-> "", description |-> "",
    thumbnail_file_id |-> NoFile, privacy |-> "private",
    made_for_kids |-> FALSE, tags |-> <<>> ]

\* the dictionary upload_video returns
NoResult ==
  [ success |-> FALSE, video_id |-> None, url |-> None,
    title |-> "", privacy |-> "" ]

\* the dictionary InstagramService.upload_reel returns
NoReel == [ success |-> FALSE, warning |-> FALSE, media |-> FALSE ]

\* clip_upload(): it returns a media, or raises with `text` as its message
ClipReturns == [ raises |-> FALSE, text |-> <<>> ]
\* the auto-login of a request: whether the session file existed, what the
\* probe did, what check_login_status returned, what client.login() and
\* dump_settings() did ("" when login() was not called), what login() returned
NoAuth ==
  [ file |-> FALSE, probe |-> "", checked |-> FALSE, login |-> "",
    success |-> FALSE, error |-> "", username |-> FALSE ]

\* what a call of InstagramService.upload_reel met
NoReelCall == [ exists |-> FALSE, size |-> 0, clip |-> ClipReturns ]

\* an HTTP response: status 0 while the request is being served; detail is
\* the text of the error, as the tuple of its pieces
NoResponse ==
  [ status |-> 0, detail |-> <<>>, result |-> NoResult, reel |-> NoReel,
    logged_in |-> FALSE, session_exists |-> FALSE ]

VARIABLES
  files,          \* file ids present in settings.UPLOAD_DIR
  sessionDefault, \* (user_data_dir / "Default").exists()
  userDataDir,    \* user_data_dir.exists()
  context,        \* YouTubeService.context: a context id or NoHandle
  playwright,     \* YouTubeService.playwright: a runtime id or NoHandle
  ctxOpen,        \* browser contexts launched and not closed
  pwRunning,      \* automation runtimes started and not stopped
  ctxPw,          \* ctxPw[c]: the runtime of open context c, NoHandle once
                  \* that runtime is stopped or c is closed
  igSessionFile,  \* InstagramService.session_file.exists()
  proc            \* per request process: control state and locals

vars ==
  << files, sessionDefault, userDataDir, context, playwright, ctxOpen,
     pwRunning, ctxPw, igSessionFile, proc >>

\* a process that serves no request
Idle ==
  [ pc |-> "idle",
    route |-> "",           \* the endpoint being served
    fn |-> "",              \* the driver method being run
    req |-> NoRequest,
    page |-> NoHandle,      \* the context the call's page belongs to
    hasPage |-> FALSE,      \* local `page` is not None
    cap |-> NoHandle,       \* the context the pending await was called on
    pw |-> NoHandle,        \* the runtime the pending await was called on
    launched |-> {},        \* contexts this call launched
    started |-> {},         \* runtimes this call started
    attempted |-> <<>>,     \* pipeline stages attempted by this call, in order
    gates |-> {},           \* structural stages whose try block succeeded
    failed |-> {},          \* structural stages whose try block failed
    cosmeticFailed |-> FALSE, \* some best-effort stage of this call failed
    scrapeFailed |-> FALSE, \* the share-URL wait of this call timed out
    vcheck |-> 0,           \* which challenge check is running (1..3)
    polls |-> 0,            \* loop counter of the running poll
    dialog |-> FALSE,       \* interstitial detected and not yet seen gone
    vprobe |-> "",          \* what the challenge check that just ran met
    vret |-> "",            \* what the challenge check that just ran returned
    sawEnabled |-> FALSE,   \* a poll before the third Next saw it enabled
    is_logged_in |-> FALSE,
    video_url |-> None,
    exc |-> "",             \* message of the exception being propagated
    excAt |-> "",           \* the await at which that exception was raised
    outcome |-> "",         \* how the driver call ended: "returned" or "raised"
    returned |-> FALSE,     \* value check_login_status returned
    hadSession |-> FALSE,   \* session_exists() when clear_session was called
    loginWait |-> "",       \* how setup_browser's wait for the login ended
    reelCall |-> NoReelCall, \* what upload_reel met: the file and clip_upload
    driverCalls |-> <<>>,   \* driver/client methods the router invoked
    auth |-> NoAuth,        \* what the Instagram auto-login met and did
    libCalls |-> <<>>,      \* calls made to the Instagram client library
    resp |-> NoResponse ]

\* the driver and the file store after construction
InitDriver ==
  /\ sessionDefault \in BOOLEAN
  /\ userDataDir = TRUE
  /\ context = NoHandle
  /\ playwright = NoHandle
  /\ ctxOpen = {}
  /\ pwRunning = {}
  /\ ctxPw = [c \in CtxPool |-> NoHandle]
  /\ proc = [p \in Procs |-> Idle]

\* no Instagram session was saved by an earlier run
Init == InitDriver /\ files \in SUBSET FileIds /\ igSessionFile = FALSE

\* an earlier run may have saved an Instagram session
InitIG ==
  InitDriver /\ files \in SUBSET ReelFileIds /\ igSessionFile \in BOOLEAN

Outcomes == {"ok", "fail"}

Upd(p, r) == proc' = [proc EXCEPT ![p] = r]

\* the other requests are not being served (a request that does not overlap)
Alone(p) == \A q \in Procs \ {p} : proc[q].pc = "idle"

(***************************************************************************)
(* Routers: what follows a driver call.                                    *)
(***************************************************************************)
\* routers/youtube.py: the HTTPException a handler raises
http_error(pr, status, detail) ==
  [pr EXCEPT !.pc = "done",
             !.resp = [NoResponse EXCEPT !.status = status, !.detail = detail]]

\* YouTubeService._init_browser up to its first await
init_browser(pr, f, pw) ==
  [pr EXCEPT !.fn = f,
             !.pc = IF pw = NoHandle THEN "ib_start" ELSE "ib_launch",
             !.cap = NoHandle, !.pw = pw,
             !.page = NoHandle, !.hasPage = FALSE,
             !.launched = {}, !.started = {},
             !.attempted = <<>>, !.gates = {}, !.failed = {},
             !.cosmeticFailed = FALSE, !.scrapeFailed = FALSE,
             !.vcheck = 0, !.polls = 0,
             !.dialog = FALSE,
             !.video_url = None, !.exc = "", !.excAt = "", !.outcome = "",
             !.driverCalls = Append(pr.driverCalls, f)]

\* after_check_login_status whose upload goes on whatever the value
after_check_login_status_unchecked(pr, value, pw, sess) ==
  LET q == [pr EXCEPT !.returned = value, !.outcome = "returned"] IN
  IF pr.route = "status"
  THEN [q EXCEPT !.pc = "done",
                 !.resp = [NoResponse EXCEPT !.status = 200,
                                             !.logged_in = value,
                                             !.session_exists = sess]]
  ELSE init_browser(q, "upload_video", pw)

\* routers/youtube.py: check_status and upload_video after check_login_status
\* returned `value`; pw and sess are self.playwright and session_exists() then
after_check_login_status(pr, value, pw, sess) ==
  LET q == [pr EXCEPT !.returned = value, !.outcome = "returned"] IN
  IF pr.route = "status"
  THEN [q EXCEPT !.pc = "done",
                 !.resp = [NoResponse EXCEPT !.status = 200,
                                             !.logged_in = value,
                                             !.session_exists = sess]]
  ELSE IF ~value
       THEN http_error(q, 401, << "Not logged in to YouTube" >>)
       ELSE init_browser(q, "upload_video", pw)

\* check_login_status without the session_exists() test
check_login_status_no_session_check(pr, pw, sess) ==
  [init_browser(pr, "check_login_status", pw) EXCEPT !.is_logged_in = FALSE]

\* YouTubeService.check_login_status up to its first await
check_login_status(pr, pw, sess) ==
  LET q == [pr EXCEPT !.driverCalls = Append(@, "check_login_status"),
                      !.fn = "check_login_status"] IN
  IF ~sess
  THEN after_check_login_status(q, FALSE, pw, sess)
  ELSE [init_browser(pr, "check_login_status", pw) EXCEPT !.is_logged_in = FALSE]

\* yt_validate without the existence check of the video file
yt_validate_no_exists(r, fs) ==
  IF lower(r.video_file_id.suffix) \notin video_exts THEN 400
  ELSE IF r.thumbnail_file_id # NoFile /\ r.thumbnail_file_id \notin fs THEN 404
  ELSE IF r.thumbnail_file_id # NoFile
          /\ lower(r.thumbnail_file_id.suffix) \notin image_exts THEN 400
  ELSE 0

\* yt_validate without the extension check of the video file
yt_validate_no_ext(r, fs) ==
  IF r.video_file_id \notin fs THEN 404
  ELSE IF r.thumbnail_file_id # NoFile /\ r.thumbnail_file_id \notin fs THEN 404
  ELSE IF r.thumbnail_file_id # NoFile
          /\ lower(r.thumbnail_file_id.suffix) \notin image_exts THEN 400
  ELSE 0

\* yt_validate without the validation of the thumbnail
yt_validate_no_thumbnail(r, fs) ==
  IF r.video_file_id \notin fs THEN 404
  ELSE IF lower(r.video_file_id.suffix) \notin video_exts THEN 400
  ELSE 0

\* routers/youtube.py upload_video: the validation of the request
yt_validate(r, fs) ==
  IF r.video_file_id \notin fs THEN 404
  ELSE IF lower(r.video_file_id.suffix) \notin video_exts THEN 400
  ELSE IF r.thumbnail_file_id # NoFile /\ r.thumbnail_file_id \notin fs THEN 404
  ELSE IF r.thumbnail_file_id # NoFile
          /\ lower(r.thumbnail_file_id.suffix) \notin image_exts THEN 400
  ELSE 0

\* routers/youtube.py upload_video, from the request to the first await
yt_upload_begin(pr, r, fs, pw, sess) ==
  LET q == [pr EXCEPT !.route = "upload", !.req = r]
      st == yt_validate(r, fs) IN
  IF st # 0
  THEN http_error(q, st, IF st = 404 THEN << "file not found" >>
                         ELSE << "Invalid file type" >>)
  ELSE check_login_status(q, pw, sess)

\* POST /youtube/upload arrives with a request of R
upload_video_request(p, solo, R) ==
  /\ proc[p].pc = "idle"
  /\ solo => Alone(p)
  /\ \E r \in R :
       Upd(p, yt_upload_begin(proc[p], r, files, playwright, sessionDefault))
  /\ UNCHANGED << files, sessionDefault, userDataDir, context, playwright, ctxOpen,
                  pwRunning, ctxPw, igSessionFile >>

\* GET /youtube/status arrives
check_status_request(p, solo) ==
  /\ proc[p].pc = "idle"
  /\ solo => Alone(p)
  /\ Upd(p, check_login_status([proc[p] EXCEPT !.route = "status"],
                               playwright, sessionDefault))
  /\ UNCHANGED << files, sessionDefault, userDataDir, context, playwright, ctxOpen,
                  pwRunning, ctxPw, igSessionFile >>

\* the response has been sent: the process is free for the next request
respond(p) ==
  /\ proc[p].pc = "done"
  /\ Upd(p, Idle)
  /\ UNCHANGED << files, sessionDefault, userDataDir, context, playwright, ctxOpen,
                  pwRunning, ctxPw, igSessionFile >>

\* DELETE /storage/delete/{file_id}
delete_file(f, solo) ==
  /\ solo => \A q \in Procs : proc[q].pc = "idle"
  /\ f \in files
  /\ files' = files \ {f}
  /\ UNCHANGED << sessionDefault, userDataDir, context, playwright, ctxOpen, pwRunning,
                  ctxPw, igSessionFile, proc >>

(***************************************************************************)
(* Exceptions.                                                             *)
(***************************************************************************)
\* str(e) of the exception the driver method of pr raises: upload_video
\* wraps the message of what it caught, setup_browser re-raises it
raised_text(pr) ==
  IF pr.fn = "upload_video"
  THEN << "YouTube upload failed: ", pr.exc >>
  ELSE << pr.exc >>

\* router_except answering 400
router_except_as_400(pr) ==
  [http_error(pr, 400, raised_text(pr)) EXCEPT !.outcome = "raised"]

\* routers/youtube.py: `except Exception` around a driver call that raised
router_except(pr) ==
  [http_error(pr, 500, raised_text(pr)) EXCEPT !.outcome = "raised"]

\* upload_video's handler from `if self.playwright` on
uv_except_stop(pr, pw) ==
  IF pw # NoHandle
  THEN [pr EXCEPT !.pc = "h_stop", !.pw = pw]
  ELSE router_except(pr)

\* uv_except_close without the close of the context
uv_except_close_skipped(pr, ctx, pw) == uv_except_stop(pr, pw)

\* upload_video's handler from `if self.context` on
uv_except_close(pr, ctx, pw) ==
  IF ctx # NoHandle
  THEN [pr EXCEPT !.pc = "h_close", !.cap = ctx]
  ELSE uv_except_stop(pr, pw)

\* upload_video's `except Exception as e` up to its first await
uv_except(pr, ctx, pw) ==
  IF pr.hasPage
  THEN [pr EXCEPT !.pc = "h_shot"]
  ELSE uv_except_close(pr, ctx, pw)

\* an exception with message msg is raised in the driver method pr runs;
\* ctx, pw and sess are self.context, self.playwright and session_exists() then
raise_exc(pr, msg, ctx, pw, sess) ==
  LET q == [pr EXCEPT !.exc = msg, !.excAt = pr.pc] IN
  CASE pr.fn = "check_login_status" ->
         after_check_login_status(q, FALSE, pw, sess)
    [] pr.fn = "upload_video" -> uv_except(q, ctx, pw)
    [] OTHER -> router_except(q)

\* the message of the exception a failed page.screenshot raises
ShotError == "Page.screenshot: Error"

\* a context on which page operations can still succeed
Alive(c) == c \in ctxOpen /\ ctxPw[c] \in pwRunning

\* the world after context c is closed
close_context(c) ==
  /\ ctxOpen' = ctxOpen \ {c}
  /\ ctxPw' = [d \in CtxPool |-> IF d = c THEN NoHandle ELSE ctxPw[d]]

\* the world after runtime r is stopped
stop_runtime(r) ==
  /\ pwRunning' = pwRunning \ {r}
  /\ ctxPw' = [d \in CtxPool |-> IF ctxPw[d] = r THEN NoHandle ELSE ctxPw[d]]

(***************************************************************************)
(* YouTubeService._init_browser and the opening of the page.               *)
(***************************************************************************)
\* identities nothing refers to any more
FreeCtx ==
  { c \in CtxPool :
      /\ c \notin ctxOpen
      /\ c # context
      /\ \A q \in Procs :
           c # proc[q].page /\ c # proc[q].cap /\ c \notin proc[q].launched }
FreePw ==
  { r \in PwPool :
      /\ r \notin pwRunning
      /\ r # playwright
      /\ \A q \in Procs : r # proc[q].pw /\ r \notin proc[q].started }

NewCtx == CHOOSE c \in FreeCtx : \A d \in FreeCtx : c <= d
NewPw == CHOOSE r \in FreePw : \A d \in FreePw : r <= d

\* `self.playwright = await async_playwright().start()` resumes
ib_start(p) ==
  /\ proc[p].pc = "ib_start"
  /\ \E o \in Outcomes :
       /\ o = "ok" => Cardinality(pwRunning) < MaxRuntimes
       /\ IF o = "ok"
          THEN /\ pwRunning' = pwRunning \cup {NewPw}
               /\ playwright' = NewPw
               /\ Upd(p, [proc[p] EXCEPT !.pc = "ib_launch", !.pw = NewPw,
                                         !.started = @ \cup {NewPw}])
          ELSE /\ Upd(p, raise_exc(proc[p], "Error", context, playwright,
                                   sessionDefault))
               /\ UNCHANGED << pwRunning, playwright >>
  /\ UNCHANGED << files, sessionDefault, userDataDir, context, ctxOpen, ctxPw, igSessionFile >>

\* `self.context = await ...launch_persistent_context(...)` resumes; the
\* browser creates the profile's Default directory when it is launched
ib_launch(p) ==
  /\ proc[p].pc = "ib_launch"
  /\ \E o \in Outcomes :
       /\ o = "ok" =>
            (proc[p].pw \in pwRunning /\ Cardinality(ctxOpen) < MaxOpen)
       /\ IF o = "ok"
          THEN /\ ctxOpen' = ctxOpen \cup {NewCtx}
               /\ ctxPw' = [ctxPw EXCEPT ![NewCtx] = proc[p].pw]
               /\ context' = NewCtx
               /\ sessionDefault' = TRUE
               /\ userDataDir' = TRUE
               /\ Upd(p, [proc[p] EXCEPT !.pc = "ib_headers",
                                         !.cap = NewCtx,
                                         !.launched = @ \cup {NewCtx}])
          ELSE /\ Upd(p, raise_exc(proc[p], "Error", context, playwright,
                                   sessionDefault))
               /\ UNCHANGED << ctxOpen, ctxPw, context, sessionDefault, userDataDir >>
  /\ UNCHANGED << files, playwright, pwRunning, igSessionFile >>

\* `await self.context.set_extra_http_headers(...)` resumes, _init_browser
\* returns and the caller evaluates self.context.new_page()
ib_headers(p) ==
  /\ proc[p].pc = "ib_headers"
  /\ \E o \in Outcomes :
       /\ o = "ok" => Alive(proc[p].cap)
       /\ IF o = "ok" /\ context # NoHandle
          THEN Upd(p, [proc[p] EXCEPT !.pc = "new_page", !.cap = context])
          ELSE Upd(p, raise_exc(proc[p],
                                IF o = "ok" THEN "AttributeError" ELSE "Error",
                                context, playwright, sessionDefault))
  /\ UNCHANGED << files, sessionDefault, userDataDir, context, playwright, ctxOpen,
                  pwRunning, ctxPw, igSessionFile >>

\* `page = await self.context.new_page()` resumes
new_page(p) ==
  /\ proc[p].pc = "new_page"
  /\ \E o \in Outcomes :
       /\ o = "ok" => Alive(proc[p].cap)
       /\ IF o = "ok"
          THEN Upd(p, [proc[p] EXCEPT !.pc = "goto", !.page = proc[p].cap,
                                      !.hasPage = TRUE])
          ELSE Upd(p, raise_exc(proc[p], "Error", context, playwright,
                                sessionDefault))
  /\ UNCHANGED << files, sessionDefault, userDataDir, context, playwright, ctxOpen,
                  pwRunning, ctxPw, igSessionFile >>

(***************************************************************************)
(* YouTubeService._check_and_handle_verify_dialog.                         *)
(***************************************************************************)
\* the message upload_video raises when challenge check n returns False
verify_message(n) ==
  CASE n = 1 -> "Verification dialog requires manual intervention"
    [] n = 2 -> "Verification dialog appeared after clicking upload"
    [] OTHER -> "Verification dialog appeared during upload"

\* the stage upload_video goes on to when challenge check n returns True
after_verify(n) ==
  CASE n = 1 -> "upload_icon"
    [] n = 2 -> "file_input"
    [] OTHER -> "title"

\* upload_video at `if not await self._check_and_handle_verify_dialog(page)`
verify_return(pr, value, ctx, pw, sess) ==
  LET q == [pr EXCEPT !.vret = IF value THEN "True" ELSE "False"] IN
  IF ~value
  THEN raise_exc(q, verify_message(pr.vcheck), ctx, pw, sess)
  ELSE [q EXCEPT !.pc = after_verify(pr.vcheck)]

\* what the except clause of _check_and_handle_verify_dialog returns
verify_on_error == TRUE

\* the first query_selector('text=Verify it's you') of a check resumes; the
\* screenshot, the query for the Next button and its click follow on the page
VerifyProbes == {"error", "absent", "error_after_detect", "no_next", "clicked"}
vd_probe(p) ==
  /\ proc[p].pc = "vd_probe"
  /\ \E r \in VerifyProbes :
       /\ r \notin {"error", "error_after_detect"} => Alive(proc[p].page)
       /\ LET pr == [proc[p] EXCEPT
                       !.attempted = Append(@, "verify"),
                       !.vprobe = r, !.vret = "",
                       !.dialog = r \notin {"error", "absent"}] IN
          CASE r = "error" \/ r = "error_after_detect" ->
                 Upd(p, verify_return(pr, verify_on_error, context, playwright,
                                      sessionDefault))
            [] r = "absent" ->
                 Upd(p, verify_return(pr, TRUE, context, playwright,
                                      sessionDefault))
            [] r = "no_next" ->
                 Upd(p, verify_return(pr, FALSE, context, playwright,
                                      sessionDefault))
            [] OTHER ->
                 Upd(p, [pr EXCEPT !.pc = "vd_poll", !.polls = 0])
  /\ UNCHANGED << files, sessionDefault, userDataDir, context, playwright, ctxOpen,
                  pwRunning, ctxPw, igSessionFile >>

\* the query_selector of iteration `polls` of `for i in range(300)` resumes
VerifyPollResults == {"error", "gone", "there"}
vd_poll(p) ==
  /\ proc[p].pc = "vd_poll"
  /\ \E r \in VerifyPollResults :
       /\ r # "error" => Alive(proc[p].page)
       /\ CASE r = "error" ->
                 Upd(p, verify_return(proc[p], verify_on_error, context,
                                      playwright, sessionDefault))
            [] r = "gone" ->
                 Upd(p, verify_return([proc[p] EXCEPT !.dialog = FALSE], TRUE,
                                      context, playwright, sessionDefault))
            [] OTHER ->
                 IF proc[p].polls + 1 < VerifyPolls
                 THEN Upd(p, [proc[p] EXCEPT !.polls = @ + 1])
                 ELSE Upd(p, verify_return(proc[p], FALSE, context, playwright,
                                           sessionDefault))
  /\ UNCHANGED << files, sessionDefault, userDataDir, context, playwright, ctxOpen,
                  pwRunning, ctxPw, igSessionFile >>

(***************************************************************************)
(* YouTubeService.upload_video: the stages between the challenge checks   *)
(* and the URL scrape.                                                     *)
(***************************************************************************)
Stages ==
  { "upload_icon", "file_input", "processing", "title", "description",
    "thumbnail", "audience", "next1", "next2", "next3", "privacy", "publish" }

\* the structural stages of the workflow: dialog open, file attach,
\* processing complete, publish click
Gates == {"upload_icon", "file_input", "processing", "publish"}

\* FatalStages with the raise of one except clause left out
FatalStages_processing_continues == {"upload_icon", "file_input", "publish"}
FatalStages_file_input_continues == {"upload_icon", "processing", "publish"}
FatalStages_publish_continues == {"upload_icon", "file_input", "processing"}

\* the stages whose except clause raises
FatalStages == {"upload_icon", "file_input", "processing", "publish"}

fatal_message(s) ==
  CASE s = "upload_icon" -> "Could not find upload button"
    [] s = "file_input" -> "Could not find file input in modal"
    [] s = "processing" -> "Upload timeout or details page not loaded"
    [] OTHER -> "Could not publish video"

\* the stages whose except clause takes a screenshot
HandlerShot == Stages \ {"description", "thumbnail"}

\* the stages preceded, outside their try, by a screenshot or a page.evaluate
Unguarded == {"upload_icon", "file_input", "audience"}

\* where upload_video goes on after the description block
after_description(r) ==
  IF r.thumbnail_file_id # NoFile THEN "thumbnail" ELSE "audience"

\* after_stage of a workflow that runs the description block when tags are
\* given
after_stage_tags(s, r) ==
  CASE s = "upload_icon" -> "vd_probe"
    [] s = "file_input" -> "processing"
    [] s = "processing" -> "vd_probe"
    [] s = "title" ->
         IF r.description # "" \/ r.tags # <<>>
         THEN "description" ELSE after_description(r)
    [] s = "description" -> after_description(r)
    [] s = "thumbnail" -> "audience"
    [] s = "audience" -> "next1"
    [] s = "next1" -> "next2"
    [] s = "next2" -> "next3_poll"
    [] s = "next3" -> "privacy"
    [] s = "privacy" -> "publish"
    [] OTHER -> "scrape"

\* where upload_video goes on after the try block of stage s ends
after_stage(s, r) ==
  CASE s = "upload_icon" -> "vd_probe"
    [] s = "file_input" -> "processing"
    [] s = "processing" -> "vd_probe"
    [] s = "title" ->
         IF r.description # "" THEN "description" ELSE after_description(r)
    [] s = "description" -> after_description(r)
    [] s = "thumbnail" -> "audience"
    [] s = "audience" -> "next1"
    [] s = "next1" -> "next2"
    [] s = "next2" -> "next3_poll"
    [] s = "next3" -> "privacy"
    [] s = "privacy" -> "publish"
    [] OTHER -> "scrape"

\* the local file a stage hands to set_input_files, NoFile if it uses none
stage_file(s, r) ==
  CASE s = "file_input" -> r.video_file_id
    [] s = "thumbnail" -> r.thumbnail_file_id
    [] OTHER -> NoFile

\* the process after stage s ended without raising
stage_done(pr, s) ==
  [pr EXCEPT !.pc = after_stage(s, pr.req),
             !.vcheck = CASE s = "upload_icon" -> 2
                          [] s = "processing" -> 3
                          [] OTHER -> @,
             !.polls = 0]

\* the except clause of stage s, its screenshot having ended `shot`
stage_except(pr, s, shot, ctx, pw, sess) ==
  IF s \in HandlerShot /\ shot = "fail"
  THEN raise_exc(pr, ShotError, ctx, pw, sess)
  ELSE IF s \in FatalStages
       THEN raise_exc(pr, fatal_message(s), ctx, pw, sess)
       ELSE stage_done(pr, s)

\* one stage: the unguarded call before it (pre), its try block (o) and the
\* screenshot of its except clause (shot)
stage(p) ==
  /\ proc[p].pc \in Stages
  /\ \E pre, o, shot \in Outcomes :
       LET s == proc[p].pc
           f == stage_file(s, proc[p].req)
           pr == [proc[p] EXCEPT
                    !.attempted = Append(@, s),
                    !.vprobe = "", !.vret = "",
                    !.sawEnabled = IF s = "next3" THEN @ ELSE FALSE,
                    !.gates = IF o = "ok" /\ s \in Gates THEN @ \cup {s} ELSE @,
                    !.failed = IF o = "fail" /\ s \in Gates THEN @ \cup {s} ELSE @,
                    !.cosmeticFailed = @ \/ (o = "fail" /\ s \notin Gates)] IN
       /\ s \notin Unguarded => pre = "ok"
       /\ (pre = "fail" \/ o = "ok" \/ s \notin HandlerShot) => shot = "ok"
       /\ pre = "fail" => o = "ok"
       /\ (s \in Unguarded /\ pre = "ok") => Alive(proc[p].page)
       /\ (pre = "ok" /\ o = "ok") =>
            (Alive(proc[p].page) /\ (f # NoFile => f \in files))
       /\ (o = "fail" /\ s \in HandlerShot /\ shot = "ok") => Alive(proc[p].page)
       /\ IF pre = "fail"
          THEN Upd(p, raise_exc(proc[p],
                                IF s = "audience" THEN "Error" ELSE ShotError,
                                context, playwright, sessionDefault))
          ELSE IF o = "ok"
               THEN Upd(p, stage_done(pr, s))
               ELSE Upd(p, stage_except(pr, s, shot, context, playwright,
                                        sessionDefault))
  /\ UNCHANGED << files, sessionDefault, userDataDir, context, playwright, ctxOpen,
                  pwRunning, ctxPw, igSessionFile >>

\* next3_poll whose loop has no bound: it is left on an enabled button only
next3_poll_unbounded(p) ==
  /\ proc[p].pc = "next3_poll"
  /\ \E enabled \in BOOLEAN :
       /\ enabled => Alive(proc[p].page)
       /\ IF enabled
          THEN Upd(p, [proc[p] EXCEPT !.pc = "next3",
                                      !.sawEnabled = enabled])
          ELSE Upd(p, [proc[p] EXCEPT !.polls = (@ + 1) % CheckPolls])
  /\ UNCHANGED << files, sessionDefault, userDataDir, context, playwright, ctxOpen,
                  pwRunning, ctxPw, igSessionFile >>

\* the query of iteration `polls` of `for i in range(max_wait)` resumes
next3_poll(p) ==
  /\ proc[p].pc = "next3_poll"
  /\ \E enabled \in BOOLEAN :
       /\ enabled => Alive(proc[p].page)
       /\ IF enabled \/ proc[p].polls + 1 >= CheckPolls
          THEN Upd(p, [proc[p] EXCEPT !.pc = "next3",
                                      !.sawEnabled = enabled])
          ELSE Upd(p, [proc[p] EXCEPT !.polls = @ + 1])
  /\ UNCHANGED << files, sessionDefault, userDataDir, context, playwright, ctxOpen,
                  pwRunning, ctxPw, igSessionFile >>

(***************************************************************************)
(* Strings are tuples of characters.                                       *)
(***************************************************************************)
\* m occurs in s at position i
OccursAt(s, m, i) ==
  /\ i >= 1
  /\ i + Len(m) - 1 <= Len(s)
  /\ \A k \in 1..Len(m) : s[i + k - 1] = m[k]

\* Python's `m in s`
Contains(s, m) == \E i \in 1..Len(s) : OccursAt(s, m, i)

\* the position of the first occurrence of m in s, 0 if there is none
Find(s, m) ==
  IF Contains(s, m)
  THEN CHOOSE i \in 1..Len(s) :
         OccursAt(s, m, i) /\ \A j \in 1..(i - 1) : ~OccursAt(s, m, j)
  ELSE 0

\* Python's s.split(m)[0]
SplitFirst(s, m) ==
  IF Find(s, m) = 0 THEN s ELSE SubSeq(s, 1, Find(s, m) - 1)

\* the text after the first occurrence of m in s (m occurs in s)
AfterFirst(s, m) == SubSeq(s, Find(s, m) + Len(m), Len(s))

\* Python's s.split(m)[1] (m occurs in s)
SplitSecond(s, m) == SplitFirst(AfterFirst(s, m), m)

YOUTU_BE == <<"y", "o", "u", "t", "u", ".", "b", "e", "/">>
V_EQ == <<"v", "=">>

\* Python's truth value of an Optional[str]
Truthy(u) == u # None /\ u # <<>>

\* the video id as the text after the first marker up to the separator
extract_video_id_after_first(u) ==
  IF ~Truthy(u) THEN None
  ELSE IF Contains(u, YOUTU_BE) THEN SplitFirst(AfterFirst(u, YOUTU_BE), <<"?">>)
  ELSE IF Contains(u, V_EQ) THEN SplitFirst(AfterFirst(u, V_EQ), <<"&">>)
  ELSE None

\* upload_video: the video id parsed out of the share URL
extract_video_id(u) ==
  IF ~Truthy(u) THEN None
  ELSE IF Contains(u, YOUTU_BE) THEN SplitFirst(SplitSecond(u, YOUTU_BE), <<"?">>)
  ELSE IF Contains(u, V_EQ) THEN SplitFirst(SplitSecond(u, V_EQ), <<"&">>)
  ELSE None

\* values the href attribute of a#share-url takes
Hrefs ==
  { None, <<>>,
    <<"h", "t", "t", "p", "s", ":", "/", "/", "y", "o", "u", "t", "u", ".", "b", "e", "/", "a", "b">>,
    <<"h", "t", "t", "p", "s", ":", "/", "/", "y", "o", "u", "t", "u", ".", "b", "e", "/", "a", "b", "?", "t", "=", "1">>,
    <<"h", "t", "t", "p", "s", ":", "/", "/", "y", ".", "c", "o", "m", "/", "w", "a", "t", "c", "h", "?", "v", "=", "c", "d", "&", "t", "=", "1">>,
    <<"h", "t", "t", "p", "s", ":", "/", "/", "y", ".", "c", "o", "m", "/", "x">>,
    <<"h", "t", "t", "p", "s", ":", "/", "/", "y", "o", "u", "t", "u", ".", "b", "e", "/", "y", "o", "u", "t", "u", ".", "b", "e", "/", "a", "b">>,
    <<"h", "t", "t", "p", "s", ":", "/", "/", "y", ".", "c", "o", "m", "/", "w", "a", "t", "c", "h", "?", "v", "=", "c", "v", "=", "d", "&", "t", "=", "1">> }

FALLBACK_URL ==
  <<"h", "t", "t", "p", "s", ":", "/", "/", "s", "t", "u", "d", "i", "o", ".", "y", "o", "u", "t", "u", "b", "e", ".", "c", "o", "m">>

\* result_url without the fallback to the studio URL
result_url_no_fallback(u) == u

\* the "url" entry of the dictionary upload_video returns
result_url(u) == IF Truthy(u) THEN u ELSE FALLBACK_URL

\* the dictionary upload_video returns
build_result(pr) ==
  [ success |-> TRUE,
    video_id |-> extract_video_id(pr.video_url),
    url |-> result_url(pr.video_url),
    title |-> pr.req.title,
    privacy |-> pr.req.privacy ]

\* the wait for a#share-url resumes; get_attribute, the screenshot of the
\* except clause and the final screenshot follow on the page
scrape(p) ==
  /\ proc[p].pc = "scrape"
  /\ \E o, shot, final \in Outcomes, href \in Hrefs :
       LET pr == [proc[p] EXCEPT !.attempted = Append(@, "scrape")] IN
       /\ o = "ok" => (shot = "ok" /\ Alive(proc[p].page))
       /\ o = "fail" => href = None
       /\ shot = "fail" => final = "ok"
       /\ (shot = "ok" /\ final = "ok") => Alive(proc[p].page)
       /\ IF shot = "fail" \/ final = "fail"
          THEN Upd(p, raise_exc([pr EXCEPT !.scrapeFailed = (o = "fail")],
                                ShotError, context, playwright,
                                sessionDefault))
          ELSE Upd(p, [pr EXCEPT !.scrapeFailed = (o = "fail"),
                                 !.video_url = href,
                                 !.pc = "close_page"])
  /\ UNCHANGED << files, sessionDefault, userDataDir, context, playwright, ctxOpen,
                  pwRunning, ctxPw, igSessionFile >>

(***************************************************************************)
(* Navigation and teardown, shared by check_login_status, upload_video and *)
(* setup_browser.                                                          *)
(***************************************************************************)
\* the caller's `await self.context.close()` is evaluated: self.context is ctx
call_context_close(pr, ctx, pw, sess) ==
  IF ctx = NoHandle
  THEN raise_exc(pr, "AttributeError", ctx, pw, sess)
  ELSE [pr EXCEPT !.pc = "close_ctx", !.cap = ctx]

\* setup_browser's wait_for_url: the studio URL is seen, or the wait raises
\* (the five minutes are over)
LoginWaits == {"detected", "timeout"}

\* setup_browser whose wait lets the timeout through
after_login_wait_timeout_raises(pr, w, ctx, pw, sess) ==
  IF w = "timeout"
  THEN raise_exc([pr EXCEPT !.loginWait = w], "TimeoutError", ctx, pw, sess)
  ELSE call_context_close([pr EXCEPT !.loginWait = w], ctx, pw, sess)

\* setup_browser after its wait for the login ended as w: the bare except
\* swallows the timeout and the teardown follows
after_login_wait(pr, w, ctx, pw, sess) ==
  call_context_close([pr EXCEPT !.loginWait = w], ctx, pw, sess)

\* `await page.goto('https://studio.youtube.com', ...)` resumes; in
\* setup_browser the wait for the login follows on the page
goto(p) ==
  /\ proc[p].pc = "goto"
  /\ \E o \in Outcomes, logged \in BOOLEAN, w \in LoginWaits :
       /\ o = "ok" => Alive(proc[p].page)
       /\ (o = "fail" \/ proc[p].fn # "setup_browser") => w = "detected"
       /\ (o = "fail" \/ proc[p].fn # "check_login_status") => logged
       /\ IF o = "fail"
          THEN Upd(p, raise_exc(proc[p], "Error", context, playwright,
                                sessionDefault))
          ELSE CASE proc[p].fn = "check_login_status" ->
                      Upd(p, [proc[p] EXCEPT !.is_logged_in = logged,
                                             !.pc = "close_page"])
                 [] proc[p].fn = "upload_video" ->
                      Upd(p, [proc[p] EXCEPT !.pc = "vd_probe", !.vcheck = 1])
                 [] OTHER ->
                      Upd(p, after_login_wait(proc[p], w, context, playwright,
                                              sessionDefault))
  /\ UNCHANGED << files, sessionDefault, userDataDir, context, playwright, ctxOpen,
                  pwRunning, ctxPw, igSessionFile >>

\* `await page.close()` resumes
close_page(p) ==
  /\ proc[p].pc = "close_page"
  /\ Upd(p, call_context_close(proc[p], context, playwright, sessionDefault))
  /\ UNCHANGED << files, sessionDefault, userDataDir, context, playwright, ctxOpen,
                  pwRunning, ctxPw, igSessionFile >>

\* `await self.context.close()` resumes and self.playwright.stop() is evaluated
close_ctx(p) ==
  /\ proc[p].pc = "close_ctx"
  /\ close_context(proc[p].cap)
  /\ IF playwright = NoHandle
     THEN Upd(p, raise_exc(proc[p], "AttributeError", context, playwright,
                           sessionDefault))
     ELSE Upd(p, [proc[p] EXCEPT !.pc = "stop_pw", !.pw = playwright])
  /\ UNCHANGED << files, sessionDefault, userDataDir, context, playwright, pwRunning, igSessionFile >>

\* the URL setup_browser returns
DASHBOARD_URL == FALLBACK_URL

\* the driver method returns to the router after its teardown
return_to_router(pr, sess) ==
  CASE pr.fn = "check_login_status" ->
         after_check_login_status(pr, pr.is_logged_in, NoHandle, sess)
    [] pr.fn = "upload_video" ->
         [pr EXCEPT !.pc = "done", !.outcome = "returned",
                    !.resp = [NoResponse EXCEPT !.status = 200,
                                                !.result = build_result(pr)]]
    [] OTHER ->
         [pr EXCEPT !.pc = "done", !.outcome = "returned",
                    !.resp = [NoResponse EXCEPT
                                !.status = 200,
                                !.result = [NoResult EXCEPT
                                              !.success = TRUE,
                                              !.url = DASHBOARD_URL]]]

\* `await self.playwright.stop()` resumes; the handles are set to None and
\* the method returns
stop_pw(p) ==
  /\ proc[p].pc = "stop_pw"
  /\ stop_runtime(proc[p].pw)
  /\ context' = NoHandle
  /\ playwright' = NoHandle
  /\ Upd(p, return_to_router(proc[p], sessionDefault))
  /\ UNCHANGED << files, sessionDefault, userDataDir, ctxOpen, igSessionFile >>

(***************************************************************************)
(* upload_video's except clause.                                           *)
(***************************************************************************)
\* the guarded error screenshot resumes, with either outcome
h_shot(p) ==
  /\ proc[p].pc = "h_shot"
  /\ Upd(p, uv_except_close(proc[p], context, playwright))
  /\ UNCHANGED << files, sessionDefault, userDataDir, context, playwright, ctxOpen,
                  pwRunning, ctxPw, igSessionFile >>

\* `await self.context.close()` of the except clause resumes
h_close(p) ==
  /\ proc[p].pc = "h_close"
  /\ close_context(proc[p].cap)
  /\ Upd(p, uv_except_stop(proc[p], playwright))
  /\ IF playwright = NoHandle
     THEN context' = NoHandle /\ playwright' = NoHandle
     ELSE UNCHANGED << context, playwright >>
  /\ UNCHANGED << files, sessionDefault, userDataDir, pwRunning, igSessionFile >>

\* `await self.playwright.stop()` of the except clause resumes
h_stop(p) ==
  /\ proc[p].pc = "h_stop"
  /\ stop_runtime(proc[p].pw)
  /\ context' = NoHandle
  /\ playwright' = NoHandle
  /\ Upd(p, router_except(proc[p]))
  /\ UNCHANGED << files, sessionDefault, userDataDir, ctxOpen, igSessionFile >>

(***************************************************************************)
(* The other YouTube endpoints.                                            *)
(***************************************************************************)
\* POST /youtube/setup-browser arrives
setup_browser_request(p, solo) ==
  /\ proc[p].pc = "idle"
  /\ solo => Alone(p)
  /\ Upd(p, init_browser([proc[p] EXCEPT !.route = "setup"], "setup_browser",
                         playwright))
  /\ UNCHANGED << files, sessionDefault, userDataDir, context, playwright, ctxOpen,
                  pwRunning, ctxPw, igSessionFile >>

\* YouTubeService.clear_session on the profile: rmtree and mkdir when the
\* directory exists
clear_session_no_mkdir(dir, default) ==
  IF dir
  THEN [ dir |-> FALSE, default |-> FALSE, raised |-> FALSE ]
  ELSE [ dir |-> dir, default |-> default, raised |-> FALSE ]

clear_session(dir, default) ==
  IF dir
  THEN [ dir |-> TRUE, default |-> FALSE, raised |-> FALSE ]
  ELSE [ dir |-> dir, default |-> default, raised |-> FALSE ]

\* DELETE /youtube/clear-session is served
clear_session_request(p, solo) ==
  /\ proc[p].pc = "idle"
  /\ solo => Alone(p)
  /\ LET fs == clear_session(userDataDir, sessionDefault) IN
       /\ userDataDir' = fs.dir
       /\ sessionDefault' = fs.default
       /\ Upd(p, [proc[p] EXCEPT
                    !.route = "clear", !.pc = "done",
                    !.hadSession = sessionDefault,
                    !.driverCalls = <<"clear_session">>,
                    !.resp = [NoResponse EXCEPT
                                !.status = IF fs.raised THEN 500 ELSE 200]])
  /\ UNCHANGED << files, context, playwright, ctxOpen, pwRunning, ctxPw,
                  igSessionFile >>

(***************************************************************************)
(* The Instagram client (services/instagram_service.py) and its router.    *)
(* The handler and the client are synchronous: a request is served in one  *)
(* step of the event loop.                                                 *)
(***************************************************************************)
MAX_SIZE_MB == 4000

\* str(settings.UPLOAD_DIR / file_id); a text is the tuple of its pieces
UPLOAD_DIR == "uploads/"
path_of(f) == << UPLOAD_DIR, f.stem, f.suffix >>

ReelRequests == [ video_file_id : ReelFileIds, caption : {"", "hi"} ]
\* account_info(): answers or raises
ProbeOutcomes == {"ok", "raise"}
\* client.login() and dump_settings(): both return, or one of them raises
LoginOutcomes == {"ok", "login_raises", "dump_raises"}
\* messages of the exceptions clip_upload() raises
ClipErrors ==
  { << "1 ", "validation error", " for Media" >>,
    << "clips_metadata", " Field required" >>,
    << "login_required" >> }
ClipOutcomes ==
  {ClipReturns} \cup { [raises |-> TRUE, text |-> t] : t \in ClipErrors }
\* os.path.getsize in MB
Sizes == {1, MAX_SIZE_MB, MAX_SIZE_MB + 1}

\* check_login_status that probes without looking at the session file
ig_check_login_status_probe_only(sessionFile, probe) ==
  [ value |-> probe = "ok", calls |-> <<"account_info">> ]

\* InstagramService.check_login_status
ig_check_login_status(sessionFile, probe) ==
  [ value |-> sessionFile /\ probe = "ok",
    calls |-> IF sessionFile THEN <<"account_info">> ELSE <<>> ]

\* login that writes the session file before the credential login
ig_login_dumps_first(sessionFile, login) ==
  [ success |-> login = "ok",
    error |-> IF login = "ok" THEN "" ELSE "LOGIN_FAILED",
    username |-> login = "ok",
    calls |-> <<"dump_settings", "login">>,
    sessionFile |-> TRUE ]

\* InstagramService.login; dump_settings writes the file or raises before it
\* has created it
ig_login(sessionFile, login) ==
  [ success |-> login = "ok",
    error |-> IF login = "ok" THEN "" ELSE "LOGIN_FAILED",
    username |-> login = "ok",
    calls |-> IF login = "login_raises" THEN <<"login">>
              ELSE <<"login", "dump_settings">>,
    sessionFile |-> sessionFile \/ login = "ok" ]

\* the request goes on without looking at what login() returned
ig_authenticated_unchecked(chk, lg) == TRUE

\* routers/instagram.py upload_reel: the request goes on past the auto-login
ig_authenticated(chk, lg) == chk.value \/ lg.success

\* has_marker that knows the "clips_metadata" marker only
has_marker_clips_only(text) == Contains(text, << "clips_metadata" >>)

\* `"clips_metadata" in error_str or "validation error" in error_str`
has_marker(text) ==
  Contains(text, << "clips_metadata" >>) \/ Contains(text, << "validation error" >>)

\* InstagramService.upload_reel: `exists` and `size` are what os.path reports
\* for path, clip is what clip_upload() does when it is called
ig_upload_reel(path, exists, size, clip) ==
  LET delegated == exists /\ size <= MAX_SIZE_MB
      raisedInTry == ~delegated \/ clip.raises
      error_str == IF ~exists THEN << "Video file not found: " >> \o path
                   ELSE IF size > MAX_SIZE_MB
                   THEN << "Video file too large: ", "size", "MB (max 4GB)" >>
                   ELSE clip.text
      calls == IF delegated THEN <<"clip_upload">> ELSE <<>>
      met == [ exists |-> exists, size |-> size,
               clip |-> IF delegated THEN clip ELSE ClipReturns ]
  IN
  IF ~raisedInTry
  THEN [ raised |-> FALSE, calls |-> calls, detail |-> <<>>, met |-> met,
         reel |-> [success |-> TRUE, warning |-> FALSE, media |-> TRUE] ]
  ELSE IF has_marker(error_str)
  THEN [ raised |-> FALSE, calls |-> calls, detail |-> <<>>, met |-> met,
         reel |-> [success |-> TRUE, warning |-> TRUE, media |-> FALSE] ]
  ELSE [ raised |-> TRUE, calls |-> calls, met |-> met,
         detail |-> << "Instagram upload failed: " >> \o error_str,
         reel |-> NoReel ]

\* routers/instagram.py upload_reel: the validation of the file
ig_validate(r, fs) ==
  IF r.video_file_id \notin fs THEN 404
  ELSE IF lower(r.video_file_id.suffix) \notin ig_video_exts THEN 400
  ELSE 0

\* routers/instagram.py upload_reel: the whole handler
ig_upload_reel_route(pr, r, fs, sessionFile, probe, login, size, clip) ==
  LET chk == ig_check_login_status(sessionFile, probe)
      lg == ig_login(sessionFile, login)
      needLogin == ~chk.value
      sf == IF needLogin THEN lg.sessionFile ELSE sessionFile
      q1 == [pr EXCEPT !.route = "reel",
                       !.req = [NoRequest EXCEPT
                                  !.video_file_id = r.video_file_id],
                       !.driverCalls = IF needLogin
                                       THEN <<"check_login_status", "login">>
                                       ELSE <<"check_login_status">>,
                       !.libCalls = IF needLogin THEN chk.calls \o lg.calls
                                    ELSE chk.calls,
                       !.auth = [ file |-> sessionFile,
                                  probe |-> IF sessionFile THEN probe ELSE "",
                                  checked |-> chk.value,
                                  login |-> IF needLogin THEN login ELSE "",
                                  success |-> needLogin /\ lg.success,
                                  error |-> IF needLogin THEN lg.error ELSE "",
                                  username |-> needLogin /\ lg.username ]]
      st == ig_validate(r, fs)
      up == ig_upload_reel(path_of(r.video_file_id), r.video_file_id \in fs,
                           size, clip)
      q2 == [q1 EXCEPT !.driverCalls = Append(@, "upload_reel"),
                       !.libCalls = @ \o up.calls,
                       !.reelCall = up.met]
  IN
  IF ~ig_authenticated(chk, lg)
  THEN [ proc |-> http_error(q1, 401, << "Failed to login" >>),
         sessionFile |-> sf ]
  ELSE IF st # 0
  THEN [ proc |-> http_error(q1, st, IF st = 404
                                     THEN << "Video file not found" >>
                                     ELSE << "Invalid video format" >>),
         sessionFile |-> sf ]
  ELSE IF up.raised
  THEN [ proc |-> [http_error(q2, 500, up.detail) EXCEPT !.outcome = "raised"],
         sessionFile |-> sf ]
  ELSE [ proc |-> [q2 EXCEPT !.pc = "done", !.outcome = "returned",
                             !.resp = [NoResponse EXCEPT !.status = 200,
                                                         !.reel = up.reel]],
         sessionFile |-> sf ]

\* POST /instagram/upload-reel is served
upload_reel_request(p) ==
  /\ proc[p].pc = "idle"
  /\ \E r \in ReelRequests, probe \in ProbeOutcomes, login \in LoginOutcomes,
        size \in Sizes, clip \in ClipOutcomes :
       LET res == ig_upload_reel_route(proc[p], r, files, igSessionFile, probe,
                                       login, size, clip) IN
       /\ Upd(p, res.proc)
       /\ igSessionFile' = res.sessionFile
  /\ UNCHANGED << files, sessionDefault, userDataDir, context, playwright,
                  ctxOpen, pwRunning, ctxPw >>

\* InstagramService.upload_reel is called on a path of the upload directory
\* by a caller other than the router, which has not validated the path
upload_reel_call(p) ==
  /\ proc[p].pc = "idle"
  /\ \E f \in ReelFileIds, size \in Sizes, clip \in ClipOutcomes :
       LET up == ig_upload_reel(path_of(f), f \in files, size, clip) IN
       Upd(p, [proc[p] EXCEPT
                 !.route = "reel_call", !.pc = "done",
                 !.req = [NoRequest EXCEPT !.video_file_id = f],
                 !.driverCalls = <<"upload_reel">>,
                 !.libCalls = up.calls,
                 !.reelCall = up.met,
                 !.outcome = IF up.raised THEN "raised" ELSE "returned",
                 !.resp = [NoResponse EXCEPT !.detail = up.detail,
                                             !.reel = up.reel]])
  /\ UNCHANGED << files, sessionDefault, userDataDir, context, playwright,
                  ctxOpen, pwRunning, ctxPw, igSessionFile >>

\* InstagramService.logout is called while a session file exists
ig_logout(p) ==
  /\ proc[p].pc = "idle"
  /\ igSessionFile
  /\ igSessionFile' = FALSE
  /\ Upd(p, [proc[p] EXCEPT !.route = "logout", !.pc = "done",
                            !.driverCalls = <<"logout">>,
                            !.auth = [NoAuth EXCEPT !.file = igSessionFile]])
  /\ UNCHANGED << files, sessionDefault, userDataDir, context, playwright,
                  ctxOpen, pwRunning, ctxPw >>

(***************************************************************************)
(* Specifications.                                                         *)
(***************************************************************************)
\* process p resumes from the await it is suspended on
Resume(p) ==
  \/ ib_start(p)
  \/ ib_launch(p)
  \/ ib_headers(p)
  \/ new_page(p)
  \/ goto(p)
  \/ vd_probe(p)
  \/ vd_poll(p)
  \/ stage(p)
  \/ next3_poll(p)
  \/ scrape(p)
  \/ close_page(p)
  \/ close_ctx(p)
  \/ stop_pw(p)
  \/ h_shot(p)
  \/ h_close(p)
  \/ h_stop(p)

\* process p resumes from the await it is suspended on, or its response is
\* sent
Drive(p) ==
  \/ Resume(p)
  \/ respond(p)

\* one step of the server: the processes of P take requests; with solo, a
\* request is taken only while no other is being served
Step(P, solo) ==
  \/ \E p \in P :
       \/ upload_video_request(p, solo, UploadRequests)
       \/ check_status_request(p, solo)
       \/ setup_browser_request(p, solo)
       \/ clear_session_request(p, solo)
       \/ Drive(p)
  \/ \E f \in FileIds : delete_file(f, solo)

\* requests are served one at a time
Next == Step({"p1"}, TRUE)

Spec == Init /\ [][Next]_vars

\* the Instagram endpoint and the file store
NextIG ==
  \/ \E p \in {"p1"} :
       \/ upload_reel_request(p)
       \/ upload_reel_call(p)
       \/ respond(p)
  \/ \E f \in ReelFileIds : delete_file(f, TRUE)
  \/ ig_logout("p2")
  \/ respond("p2")

\* upload requests for a video file, with or without a thumbnail
LiveRequests ==
  { r \in UploadRequests :
      /\ r.video_file_id.suffix = ".MP4"
      /\ r.description = "" /\ r.privacy = "private"
      /\ ~r.made_for_kids /\ r.tags = <<>> }

\* uploads served one at a time
NextLive ==
  \/ upload_video_request("p1", TRUE, LiveRequests)
  \/ Drive("p1")

\* every awaited call completes, by its result or by its timeout, and the
\* event loop then resumes the coroutine that awaits it
SpecLive == Init /\ [][NextLive]_vars /\ WF_vars(NextLive)

\* one upload request, for the video file and without a thumbnail
ConcRequests == { r \in LiveRequests : r.thumbnail_file_id = NoFile }

\* the files are stored and a browser has run on the profile before
InitConc ==
  InitDriver /\ files = FileIds /\ sessionDefault = TRUE /\ igSessionFile = FALSE

\* one upload, served by p1, and one status check, served by p2, overlap on
\* the shared driver
NextConc ==
  \/ upload_video_request("p1", FALSE, ConcRequests)
  \/ check_status_request("p2", FALSE)
  \/ \E p \in Procs : Resume(p)
SpecConc == InitConc /\ [][NextConc]_vars

\* uploads (p1) during which the video file may be deleted
NextDelete ==
  \/ upload_video_request("p1", FALSE, ConcRequests)
  \/ Drive("p1")
  \/ \E f \in { r.video_file_id : r \in ConcRequests } : delete_file(f, FALSE)

SpecDelete == InitConc /\ [][NextDelete]_vars

\* a clear-session request (p1) that overlaps status checks (p2)
NextClear ==
  \/ clear_session_request("p1", FALSE)
  \/ respond("p1")
  \/ check_status_request("p2", FALSE)
  \/ ib_start("p2")
  \/ ib_launch("p2")
  \/ ib_headers("p2")
  \/ new_page("p2")
  \/ goto("p2")
  \/ close_page("p2")
  \/ close_ctx("p2")
  \/ stop_pw("p2")
  \/ respond("p2")

SpecClear == InitConc /\ [][NextClear]_vars

\* the requests of R with the tags t
WithTags(R, t) == { [r EXCEPT !.tags = t] : r \in R }

\* the second of two uploads arrives when the first has been served
second_upload_request(p, q, R) ==
  /\ proc[p].pc = "done"
  /\ upload_video_request(q, FALSE, R)

\* two uploads one after the other, p1's without tags and p2's with tags
NextTags ==
  \/ upload_video_request("p1", FALSE, WithTags(ConcRequests, <<>>))
  \/ Resume("p1")
  \/ second_upload_request("p1", "p2", WithTags(ConcRequests, <<"fun">>))
  \/ Resume("p2")

SpecTags == InitConc /\ [][NextTags]_vars

SpecIG == InitIG /\ [][NextIG]_vars

\* both upload endpoints, served one at a time
NextAPI ==
  \/ Next
  \/ upload_reel_request("p1")
  \/ ig_logout("p2")
  \/ respond("p2")

SpecAPI == Init /\ [][NextAPI]_vars

(***************************************************************************)
(* Properties.                                                             *)
(***************************************************************************)
InSeq(x, seq) == \E i \in 1..Len(seq) : seq[i] = x
Pos(x, seq) == CHOOSE i \in 1..Len(seq) : seq[i] = x
Last(seq) == seq[Len(seq)]

\* process p runs, or has just ended, a call of upload_video
InUpload(p) == proc[p].fn = "upload_video" /\ proc[p].pc # "idle"
\* the call of upload_video of p has ended
UploadEnded(p) == proc[p].fn = "upload_video" /\ proc[p].pc = "done"
\* control is in upload_video's except clause, or the call has ended
Aborting(p) == proc[p].pc \in {"h_shot", "h_close", "h_stop", "done"}
\* everything the call of p launched is closed and the handles are None
TornDown(p) ==
  /\ proc[p].launched \cap ctxOpen = {}
  /\ proc[p].started \cap pwRunning = {}
  /\ context = NoHandle
  /\ playwright = NoHandle

\* C1: in a call of upload_video the publish click is attempted only after
\* the upload-entry click, the file attach and the processing wait of the
\* same call have each been attempted before it and have succeeded.
C1_PublishAfterGates ==
  \A p \in Procs :
    (InUpload(p) /\ InSeq("publish", proc[p].attempted)) =>
      \A g \in {"upload_icon", "file_input", "processing"} :
        /\ g \in proc[p].gates
        /\ InSeq(g, proc[p].attempted)
        /\ Pos(g, proc[p].attempted) < Pos("publish", proc[p].attempted)

C1_Witness ==
  \E p \in Procs : InUpload(p) /\ InSeq("publish", proc[p].attempted)

C3_Claim ==
  \A p \in Procs :
    (proc[p].route = "status" /\ proc[p].pc = "done") =>
      /\ proc[p].resp.status = 200
      /\ proc[p].launched \cap ctxOpen = {}
      /\ context \notin ctxOpen

\* C4: a call of upload_video whose publish click failed ends by raising: no
\* result dictionary is returned, whatever the earlier best-effort stages did.
C4_PublishFailureIsFatal ==
  \A p \in Procs :
    (InUpload(p) /\ "publish" \in proc[p].failed) =>
      /\ Aborting(p)
      /\ ~InSeq("scrape", proc[p].attempted)
      /\ proc[p].pc = "done" =>
           /\ proc[p].outcome = "raised"
           /\ proc[p].resp.status = 500
           /\ proc[p].resp.result = NoResult

C4_Witness ==
  \E p \in Procs :
    /\ UploadEnded(p)
    /\ "publish" \in proc[p].failed
    /\ proc[p].cosmeticFailed

C6_FileInputFailureIsFatal ==
  \A p \in Procs :
    (InUpload(p) /\ "file_input" \in proc[p].failed) =>
      /\ Aborting(p)
      /\ Last(proc[p].attempted) = "file_input"
      /\ proc[p].pc = "done" =>
           /\ proc[p].outcome = "raised"
           /\ proc[p].resp.status = 500
           /\ TornDown(p)

C6_Witness ==
  \E p \in Procs :
    /\ UploadEnded(p)
    /\ "file_input" \in proc[p].failed
    /\ proc[p].launched # {}

\* C7 (as claimed): while an interstitial that a challenge check detected has
\* not been seen gone, upload_video is either still polling in that check or
\* aborting with the manual-verification failure; no further stage is
\* attempted.
C7_Claim ==
  \A p \in Procs :
    (InUpload(p) /\ proc[p].dialog) =>
      /\ proc[p].pc \in {"vd_poll", "h_shot", "h_close", "h_stop", "done"}
      /\ Last(proc[p].attempted) = "verify"
      /\ proc[p].pc # "vd_poll" =>
           proc[p].exc \in {verify_message(n) : n \in 1..3}

\* C8 (as claimed): a call of upload_video in which a best-effort stage
\* failed still attempts the publish click before it ends.
C8_Claim ==
  \A p \in Procs :
    (UploadEnded(p) /\ proc[p].cosmeticFailed) =>
      InSeq("publish", proc[p].attempted)

\* C9: a POST /youtube/upload whose video file is not in the file store is
\* answered 404 at once: no driver method is invoked, no browser launched.
C9_MissingVideoIs404 ==
  \A p \in Procs :
    (proc[p].route = "upload" /\ proc[p].req.video_file_id \notin files) =>
      /\ proc[p].pc = "done"
      /\ proc[p].resp.status = 404
      /\ proc[p].driverCalls = <<>>
      /\ proc[p].launched = {}
      /\ proc[p].started = {}

C9_Witness ==
  \E p \in Procs :
    /\ proc[p].route = "upload"
    /\ proc[p].req.video_file_id \notin files
    /\ proc[p].resp.status = 404
    /\ sessionDefault

\* C10 (as claimed): a POST /instagram/upload-reel whose video file is not in
\* the file store is answered 404 without any call to the Instagram client.
C10_Claim ==
  \A p \in Procs :
    (proc[p].route = "reel" /\ proc[p].req.video_file_id \notin files) =>
      /\ proc[p].resp.status = 404
      /\ proc[p].libCalls = <<>>

\* C11: a POST /youtube/upload whose video file exists and has an extension
\* outside the accepted video set (compared in lower case) is answered 400 at
\* once: neither check_login_status nor upload_video is invoked.
C11_BadVideoExtensionIs400 ==
  \A p \in Procs :
    (/\ proc[p].route = "upload"
     /\ proc[p].req.video_file_id \in files
     /\ lower(proc[p].req.video_file_id.suffix) \notin video_exts) =>
      /\ proc[p].pc = "done"
      /\ proc[p].resp.status = 400
      /\ proc[p].driverCalls = <<>>
      /\ proc[p].launched = {}

C11_Witness ==
  \E p \in Procs :
    /\ proc[p].route = "upload"
    /\ proc[p].req.video_file_id \in files
    /\ proc[p].req.video_file_id.suffix = ".png"
    /\ proc[p].resp.status = 400
    /\ sessionDefault

\* the thumbnail of request r is supplied and is missing or not an image
BadThumbnail(r) ==
  /\ r.thumbnail_file_id # NoFile
  /\ \/ r.thumbnail_file_id \notin files
     \/ lower(r.thumbnail_file_id.suffix) \notin image_exts

\* C12: a POST /youtube/upload that supplies a thumbnail which is missing or
\* has an extension outside the accepted image set is answered 4xx before any
\* driver call: 404 for a missing thumbnail and 400 for a wrong extension
\* once the video file has passed its own validation.
C12_ThumbnailValidatedFirst ==
  \A p \in Procs :
    (proc[p].route = "upload" /\ BadThumbnail(proc[p].req)) =>
      /\ proc[p].pc = "done"
      /\ proc[p].driverCalls = <<>>
      /\ proc[p].launched = {}
      /\ proc[p].resp.status \in {400, 404}
      /\ (/\ proc[p].req.video_file_id \in files
          /\ lower(proc[p].req.video_file_id.suffix) \in video_exts) =>
           proc[p].resp.status =
             IF proc[p].req.thumbnail_file_id \notin files THEN 404 ELSE 400

C12_Witness ==
  \E p \in Procs :
    /\ proc[p].route = "upload"
    /\ proc[p].req.video_file_id \in files
    /\ lower(proc[p].req.video_file_id.suffix) \in video_exts
    /\ proc[p].req.thumbnail_file_id \in files
    /\ BadThumbnail(proc[p].req)
    /\ proc[p].resp.status = 400
    /\ sessionDefault

\* C13: a call of check_login_status made while the profile has no Default
\* directory returns False in the same step: it starts no runtime and
\* launches no browser context.
C13_NoSessionNoBrowser ==
  [][\A p \in Procs :
       (/\ proc[p].pc = "idle"
        /\ InSeq("check_login_status", proc'[p].driverCalls)
        /\ ~sessionDefault) =>
         /\ proc'[p].pc = "done"
         /\ proc'[p].outcome = "returned"
         /\ ~proc'[p].returned
         /\ proc'[p].launched = {}
         /\ proc'[p].started = {}
         /\ ctxOpen' = ctxOpen
         /\ pwRunning' = pwRunning
         /\ proc'[p].route = "status" =>
              /\ proc'[p].resp.status = 200
              /\ ~proc'[p].resp.logged_in]_vars

C13_Witness ==
  \E p \in Procs :
    /\ proc[p].route = "status"
    /\ proc[p].pc = "done"
    /\ proc[p].driverCalls = <<"check_login_status">>
    /\ ~proc[p].resp.session_exists
    /\ ~proc[p].resp.logged_in
    /\ proc[p].launched = {}

\* C14: clear_session leaves the profile directory present without a Default
\* directory, so that session_exists() is False right after it, and the
\* request is answered 200; a clear_session called again on that profile
\* does not raise and leaves it as it is.
C14_ClearSessionIdempotent ==
  [][\A p \in Procs :
       (proc[p].pc = "idle" /\ proc'[p].route = "clear") =>
         /\ ~sessionDefault'
         /\ userDataDir'
         /\ proc'[p].resp.status = 200
         /\ clear_session(userDataDir', sessionDefault') =
              [ dir |-> userDataDir', default |-> sessionDefault',
                raised |-> FALSE ]]_vars

C14_Witness ==
  \E p \in Procs :
    /\ proc[p].route = "clear"
    /\ proc[p].pc = "done"
    /\ proc[p].hadSession
    /\ ~sessionDefault
    /\ userDataDir

\* process p has served, or been, a call of InstagramService.upload_reel
ReelCalled(p) ==
  /\ proc[p].route \in {"reel", "reel_call"}
  /\ InSeq("upload_reel", proc[p].driverCalls)

\* C15: a call of upload_reel in which clip_upload raised with a message that
\* holds "clips_metadata" or "validation error" does not raise: it returns
\* success True with a warning, and the router answers 200 with that result.
C15_SchemaMismatchIsSuccess ==
  \A p \in Procs :
    (/\ ReelCalled(p)
     /\ proc[p].reelCall.clip.raises
     /\ \/ InSeq("clips_metadata", proc[p].reelCall.clip.text)
        \/ InSeq("validation error", proc[p].reelCall.clip.text)) =>
      /\ proc[p].outcome = "returned"
      /\ proc[p].resp.reel.success
      /\ proc[p].resp.reel.warning
      /\ proc[p].route = "reel" => proc[p].resp.status = 200

C15_Witness ==
  \E p \in Procs :
    /\ proc[p].route = "reel"
    /\ InSeq("clip_upload", proc[p].libCalls)
    /\ proc[p].reelCall.clip.raises
    /\ InSeq("validation error", proc[p].reelCall.clip.text)
    /\ proc[p].resp.status = 200

\* C16 (as claimed): a call of upload_reel on a path that does not exist, or
\* on a file above the size ceiling, raises without calling clip_upload, and
\* a call that returns success True has called clip_upload.
C16_Claim ==
  \A p \in Procs :
    ReelCalled(p) =>
      /\ (\/ ~proc[p].reelCall.exists
          \/ proc[p].reelCall.size > MAX_SIZE_MB) =>
           /\ proc[p].outcome = "raised"
           /\ ~InSeq("clip_upload", proc[p].libCalls)
      /\ proc[p].resp.reel.success => InSeq("clip_upload", proc[p].libCalls)

\* C17 (as claimed): at most one browser context is launched and not closed
\* and still driven by a running runtime.
C17_Claim ==
  Cardinality({ c \in ctxOpen : Alive(c) }) <= 1

\* C18: once setup_browser's wait for the login has ended, with the studio
\* URL seen or with the timeout, the call goes through its teardown; it
\* returns the dashboard URL with the context it launched closed, the runtime
\* stopped and both handles None.
C18_SetupSwallowsTimeout ==
  \A p \in Procs :
    (proc[p].route = "setup" /\ proc[p].loginWait # "") =>
      /\ proc[p].pc \in {"close_ctx", "stop_pw", "done"}
      /\ proc[p].pc = "done" =>
           /\ proc[p].outcome = "returned"
           /\ proc[p].resp.status = 200
           /\ proc[p].resp.result.url = DASHBOARD_URL
           /\ TornDown(p)

C18_Witness ==
  \E p \in Procs :
    /\ proc[p].route = "setup"
    /\ proc[p].pc = "done"
    /\ proc[p].loginWait = "timeout"
    /\ proc[p].launched # {}

\* C19: a POST /youtube/upload calls upload_video only after the
\* check_login_status of the same request returned True; when it returned
\* False the request is answered 401 and upload_video is not called.
C19_UploadOnlyWhenLoggedIn ==
  \A p \in Procs :
    proc[p].route = "upload" =>
      /\ InSeq("upload_video", proc[p].driverCalls) =>
           /\ proc[p].driverCalls = <<"check_login_status", "upload_video">>
           /\ proc[p].returned
      /\ (proc[p].pc = "done"
          /\ proc[p].driverCalls = <<"check_login_status">>) =>
           /\ ~proc[p].returned
           /\ proc[p].resp.status = 401

C19_Witness ==
  \E p \in Procs :
    /\ proc[p].route = "upload"
    /\ proc[p].pc = "done"
    /\ proc[p].driverCalls = <<"check_login_status">>
    /\ proc[p].launched # {}
    /\ proc[p].exc = ""
    /\ proc[p].resp.status = 401

\* the call of the uploading method the endpoint of p makes
UploadCall(p) ==
  IF proc[p].route = "upload" THEN "upload_video" ELSE "upload_reel"

\* the response of p carries message text: the method's prefix, then text
Carries(p, text) ==
  /\ Len(proc[p].resp.detail) >= 2
  /\ proc[p].resp.detail[1] =
       IF proc[p].route = "upload" THEN "YouTube upload failed: "
       ELSE "Instagram upload failed: "
  /\ SubSeq(proc[p].resp.detail, 2, Len(proc[p].resp.detail)) = text

\* C20: a POST /youtube/upload or POST /instagram/upload-reel that ends
\* before its uploading method is called is answered 400, 401 or 404; one
\* whose uploading method raised is answered 500 with the message of the
\* exception in the detail; one whose uploading method returned, 200.
C20_ErrorPropagation ==
  \A p \in Procs :
    (proc[p].pc = "done" /\ proc[p].route \in {"upload", "reel"}) =>
      /\ ~InSeq(UploadCall(p), proc[p].driverCalls) =>
           proc[p].resp.status \in {400, 401, 404}
      /\ (InSeq(UploadCall(p), proc[p].driverCalls)
          /\ proc[p].outcome = "raised") =>
           /\ proc[p].resp.status = 500
           /\ proc[p].route = "upload" =>
                proc[p].exc # "" /\ Carries(p, << proc[p].exc >>)
           /\ (proc[p].route = "reel" /\ proc[p].reelCall.clip.raises) =>
                Carries(p, proc[p].reelCall.clip.text)
      /\ (InSeq(UploadCall(p), proc[p].driverCalls)
          /\ proc[p].outcome = "returned") =>
           proc[p].resp.status = 200

C20_Witness ==
  \E p \in Procs :
    /\ proc[p].route = "upload"
    /\ proc[p].pc = "done"
    /\ "processing" \in proc[p].failed
    /\ proc[p].resp.status = 500
    /\ igSessionFile

\* C21 (as claimed): a challenge check that has just returned has returned
\* True without polling when the interstitial was absent, False without
\* polling when it was there without a Next button, and after the click of
\* the Next button True exactly when a poll, one of at most VerifyPolls, saw
\* the interstitial gone; it never returns True while an interstitial it
\* detected has not been seen gone.
C21_Claim ==
  \A p \in Procs :
    (InUpload(p) /\ proc[p].vret # "") =>
      /\ proc[p].vprobe = "absent" => proc[p].vret = "True"
      /\ proc[p].vprobe = "no_next" => proc[p].vret = "False"
      /\ proc[p].vprobe \in {"absent", "no_next"} => proc[p].polls = 0
      /\ proc[p].vprobe = "clicked" => proc[p].polls < VerifyPolls
      /\ proc[p].dialog => proc[p].vret = "False"
      /\ proc[p].vret = "False" => proc[p].dialog

\* C23 (as claimed): the click of the third Next is attempted only after a
\* poll of the wait before it saw the Next button enabled.
C23_Claim ==
  \A p \in Procs :
    (InUpload(p) /\ proc[p].attempted # <<>>
     /\ Last(proc[p].attempted) = "next3") =>
      proc[p].sawEnabled

\* C24 (as claimed): no call of upload_video is ended by the exception of a
\* diagnostic screenshot.
C24_Claim ==
  \A p \in Procs : InUpload(p) => proc[p].exc # ShotError

\* C22: every call of upload_video ends: it returns or raises, whatever the
\* page does, the polls of the challenge check and of the wait before the
\* third Next being bounded.
C22_UploadTerminates ==
  \A p \in Procs :
    (proc[p].fn = "upload_video" /\ proc[p].pc # "idle")
      ~> (proc[p].pc = "done")

C22_Witness ==
  \E p \in Procs :
    /\ UploadEnded(p)
    /\ proc[p].vprobe = "clicked"
    /\ proc[p].vret = "False"
    /\ proc[p].polls = VerifyPolls - 1

\* C25 (as claimed): a call that is about to close a browser context closes
\* one it launched itself, whatever other call overlaps it on the driver.
C25_Claim ==
  \A p \in Procs :
    proc[p].pc \in {"close_ctx", "h_close"} => proc[p].cap \in proc[p].launched

\* C26 (as claimed): the video file a /youtube/upload request found stored is
\* still stored when upload_video hands its path to the file input.
C26_Claim ==
  \A p \in Procs :
    (InUpload(p) /\ proc[p].pc = "file_input") =>
      proc[p].req.video_file_id \in files

\* C27 (as claimed): a response of GET /youtube/status that reports
\* logged_in reports session_exists as well.
C27_Claim ==
  \A p \in Procs :
    (proc[p].route = "status" /\ proc[p].pc = "done") =>
      (proc[p].resp.logged_in => proc[p].resp.session_exists)

\* C28: POST /instagram/upload-reel calls check_login_status first and
\* login() only when it returned false; upload_reel is called only when
\* check_login_status returned true or login() returned success, and a
\* login() that reports failure ends the request with 401 and without a call
\* of upload_reel or of clip_upload.
C28_AutoLogin ==
  \A p \in Procs :
    (proc[p].route = "reel" /\ proc[p].pc = "done") =>
      LET a == proc[p].auth
          calledLogin == a.login # ""
      IN
      /\ proc[p].driverCalls[1] = "check_login_status"
      /\ calledLogin <=> ~a.checked
      /\ calledLogin <=> InSeq("login", proc[p].driverCalls)
      /\ InSeq("upload_reel", proc[p].driverCalls) =>
           (a.checked \/ (calledLogin /\ a.success))
      /\ (calledLogin /\ ~a.success) =>
           /\ proc[p].resp.status = 401
           /\ ~InSeq("upload_reel", proc[p].driverCalls)
           /\ ~InSeq("clip_upload", proc[p].libCalls)

\* a session file was there, the probe raised, and login() reported failure
C28_Witness ==
  \E p \in Procs :
    /\ proc[p].route = "reel" /\ proc[p].pc = "done"
    /\ proc[p].auth.file /\ proc[p].auth.probe = "raise"
    /\ proc[p].auth.login = "login_raises"
    /\ proc[p].resp.status = 401

\* C29: a call of login() returns: when client.login() and dump_settings()
\* succeed the session file exists afterwards and the result is success with
\* the username; when either raises the result is failure with error
\* LOGIN_FAILED and the request is answered 401, not 500; when the credential
\* login raises, dump_settings() is not called and the session file is as it
\* was.
C29_LoginNeverRaises ==
  [][ \A p \in Procs :
        (proc'[p] # proc[p] /\ proc'[p].route = "reel"
         /\ proc'[p].auth.login # "") =>
          LET a == proc'[p].auth IN
          /\ a.login = "ok" =>
               (a.success /\ a.username /\ a.error = "" /\ igSessionFile')
          /\ a.login # "ok" =>
               /\ ~a.success /\ ~a.username /\ a.error = "LOGIN_FAILED"
               /\ proc'[p].resp.status = 401
          /\ a.login = "login_raises" =>
               /\ igSessionFile' = igSessionFile
               /\ ~InSeq("dump_settings", proc'[p].libCalls) ]_vars

\* no session file, the credential login raised, and there is still no file
C29_Witness ==
  \E p \in Procs :
    /\ proc[p].route = "reel" /\ proc[p].pc = "done"
    /\ ~proc[p].auth.file /\ proc[p].auth.login = "login_raises"
    /\ proc[p].auth.error = "LOGIN_FAILED"
    /\ ~igSessionFile

\* C30: logout() leaves no session file; a check_login_status() made while
\* there is no session file returns false without the account_info() probe; a
\* probe that raises makes it return false, and the request goes on to
\* login(); the session file comes into existence only by a login() that
\* succeeds.
C30_LoggedOut ==
  [][ /\ \A p \in Procs :
           (proc'[p] # proc[p] /\ proc'[p].route = "logout") => ~igSessionFile'
      /\ \A p \in Procs :
           (proc'[p] # proc[p] /\ proc'[p].route = "reel") =>
             LET a == proc'[p].auth IN
             /\ a.file = igSessionFile
             /\ ~igSessionFile =>
                  (~a.checked /\ ~InSeq("account_info", proc'[p].libCalls))
             /\ a.probe = "raise" => (~a.checked /\ a.login # "")
             /\ a.checked => (igSessionFile /\ a.probe = "ok")
      /\ (~igSessionFile /\ igSessionFile') =>
           \E p \in Procs :
             /\ proc'[p] # proc[p] /\ proc'[p].route = "reel"
             /\ proc'[p].auth.login = "ok" /\ proc'[p].auth.success ]_vars

\* logout() removed a session file, and the request served after it found
\* none, did not probe, and its login() failed: there is still no file
C30_Witness ==
  /\ proc["p2"].route = "logout" /\ proc["p2"].pc = "done"
  /\ proc["p2"].auth.file
  /\ ~igSessionFile
  /\ proc["p1"].route = "reel" /\ proc["p1"].pc = "done"
  /\ ~proc["p1"].auth.file /\ ~proc["p1"].auth.checked
  /\ proc["p1"].libCalls[1] = "login"
  /\ ~proc["p1"].auth.success

\* a call of upload_video of p has returned after reading a non-empty share URL
Scraped(p) ==
  /\ UploadEnded(p) /\ proc[p].outcome = "returned"
  /\ ~proc[p].scrapeFailed /\ Truthy(proc[p].video_url)

\* C31 (as claimed): the video id of a call that read a non-empty share URL
\* is the text after the first "youtu.be/" up to the first "?", otherwise the
\* text after the first "v=" up to the next "&", otherwise None; the URL is
\* returned as it was read.
C31_Claim ==
  \A p \in Procs :
    Scraped(p) =>
      LET u == proc[p].video_url IN
      /\ proc[p].resp.result.url = u
      /\ proc[p].resp.result.video_id =
           IF Contains(u, YOUTU_BE)
           THEN SplitFirst(AfterFirst(u, YOUTU_BE), <<"?">>)
           ELSE IF Contains(u, V_EQ)
           THEN SplitFirst(AfterFirst(u, V_EQ), <<"&">>)
           ELSE None

\* id is the longest prefix of text that holds neither the marker nor the
\* separator: it ends where the first of them begins, or with the text
EndsAtFirst(id, text, marker, sep) ==
  /\ Len(id) <= Len(text)
  /\ id = SubSeq(text, 1, Len(id))
  /\ ~Contains(id, marker) /\ ~Contains(id, sep)
  /\ \/ Len(id) = Len(text)
     \/ OccursAt(text, marker, Len(id) + 1)
     \/ OccursAt(text, sep, Len(id) + 1)

\* C31 (amended): the video id is the text after the first "youtu.be/" up to
\* the first "?" or the next "youtu.be/", whichever comes first; otherwise
\* the text after the first "v=" up to the next "&" or the next "v=";
\* otherwise None; the URL is returned as it was read.
C31_VideoIdFromUrl ==
  \A p \in Procs :
    Scraped(p) =>
      LET u == proc[p].video_url
          id == proc[p].resp.result.video_id
      IN
      /\ proc[p].resp.result.url = u
      /\ IF Contains(u, YOUTU_BE)
         THEN EndsAtFirst(id, AfterFirst(u, YOUTU_BE), YOUTU_BE, <<"?">>)
         ELSE IF Contains(u, V_EQ)
         THEN EndsAtFirst(id, AfterFirst(u, V_EQ), V_EQ, <<"&">>)
         ELSE id = None

\* the share URL holds "v=" twice before its "&": the id ends at the second
C31_Witness ==
  \E p \in Procs :
    /\ Scraped(p)
    /\ ~Contains(proc[p].video_url, YOUTU_BE)
    /\ Contains(AfterFirst(proc[p].video_url, V_EQ), V_EQ)
    /\ proc[p].resp.result.video_id = <<"c">>

\* what the page and the browser did to the call of upload_video of p: the
\* structural stages that passed and that failed, whether a best-effort stage
\* failed, what the last challenge check met, whether the third Next was seen
\* enabled, the outcome of the scrape, and the exception raised and where
PageBehaviour(p) ==
  [ gates |-> proc[p].gates, failed |-> proc[p].failed,
    cosmeticFailed |-> proc[p].cosmeticFailed,
    vprobe |-> proc[p].vprobe, vret |-> proc[p].vret,
    dialog |-> proc[p].dialog, sawEnabled |-> proc[p].sawEnabled,
    scrapeFailed |-> proc[p].scrapeFailed, video_url |-> proc[p].video_url,
    exc |-> proc[p].exc, excAt |-> proc[p].excAt ]

\* what the call of upload_video of p did and gave: the stages it attempted,
\* in order, how it ended, and the response built from its result
Workflow(p) ==
  [ attempted |-> proc[p].attempted, outcome |-> proc[p].outcome,
    resp |-> proc[p].resp ]

\* C32: two calls of upload_video whose requests differ only in their tags
\* and that met the same page behaviour attempted the same stages in the same
\* order and ended with the same result.
C32_TagsDoNotInfluence ==
  \A p, q \in Procs :
    ( /\ UploadEnded(p) /\ UploadEnded(q)
      /\ [proc[p].req EXCEPT !.tags = <<>>] = [proc[q].req EXCEPT !.tags = <<>>]
      /\ PageBehaviour(p) = PageBehaviour(q) ) =>
        Workflow(p) = Workflow(q)

\* both calls, one without and one with tags, were published and returned
C32_Witness ==
  /\ UploadEnded("p1") /\ UploadEnded("p2")
  /\ proc["p1"].req.tags = <<>> /\ proc["p2"].req.tags = <<"fun">>
  /\ PageBehaviour("p1") = PageBehaviour("p2")
  /\ proc["p1"].outcome = "returned" /\ proc["p2"].outcome = "returned"
  /\ Last(proc["p1"].attempted) = "scrape"

====
